---- MODULE Spec2Model ----
(***************************************************************************)
(* RSLP stemmer (backend/src/stemmer.ts, backend/src/types.ts).            *)
(*                                                                         *)
(* A JavaScript string is modelled as the sequence of its UTF-16 code      *)
(* units, each a natural number, so that case folding and the character    *)
(* filter are computed on code points exactly as the engine computes them. *)
(*   33 '!'   49 '1'   83 'S'   97 'a'   115 's'                            *)
(*   195 'A~' 223 sharp s  227 'a~'  255 'y:'  376 'Y:' (capital y         *)
(*   with diaeresis)                                                       *)
(* A value passed to or returned by stem is a record [kind, chars] with    *)
(* kind "string", "null" or "undefined".                                   *)
(***************************************************************************)
EXTENDS Integers, Sequences, FiniteSets, TLC

VARIABLES
    steps,      \* RSLPStemmer.steps: the rule table bound by the constructor
    input,      \* the argument `word` of the running stem call
    pc,         \* position of the call: "call", "steps", "done"
    stepIdx,    \* index of the step the for-of loop of stem is at
    stemmed,    \* the local `stemmed` of stem
    trace,      \* one record per loop iteration already executed
    result,     \* the value returned by stem
    arg,        \* paired calls: the argument of the second call
    base,       \* paired calls: the value returned by the first call
    calls,      \* concurrent calls: the locals of each stem call in progress
    parser,     \* parseRSLPRules: its locals and its outcome
    server,     \* index.ts: the module-level state of the process
    http        \* POST /stem: the request body and the response

vars == <<steps, input, pc, stepIdx, stemmed, trace, result, arg, base,
          calls, parser, server, http>>

(***************************************************************************)
(* Bounds                                                                  *)
(***************************************************************************)
MaxLen == 3
MaxPunct == 2
NumCalls == 2
MaxLines == 4
MaxRequests == 2
MaxText == 4

RECURSIVE SeqsUpTo(_, _)
SeqsUpTo(S, n) ==
    IF n = 0 THEN {<<>>}
    ELSE LET shorter == SeqsUpTo(S, n - 1)
         IN  shorter \cup {Append(w, c) : w \in {x \in shorter : Len(x) = n - 1}, c \in S}

(***************************************************************************)
(* Values                                                                  *)
(***************************************************************************)
Str(chars) == [kind |-> "string", chars |-> chars]
Null == [kind |-> "null", chars |-> <<>>]
Undefined == [kind |-> "undefined", chars |-> <<>>]

IsFalsyNullOnly(v) == v.kind # "string"
\* `!word`: null, undefined and the empty string are falsy
IsFalsy(v) == v.kind # "string" \/ Len(v.chars) = 0

(***************************************************************************)
(* String primitives                                                       *)
(***************************************************************************)
RECURSIVE Flatten(_)
Flatten(ss) == IF ss = <<>> THEN <<>> ELSE Head(ss) \o Flatten(Tail(ss))

\* String.prototype.toLowerCase on one code unit
LowerOf(c) ==
    IF c \in 65..90 THEN <<c + 32>>
    ELSE IF c \in (192..222) \ {215} THEN <<c + 32>>
    ELSE IF c = 376 THEN <<255>>
    ELSE IF c = 304 THEN <<105, 775>>
    ELSE IF c = 8490 THEN <<107>>
    ELSE IF c = 8491 THEN <<229>>
    ELSE <<c>>

toLowerCase(w) == Flatten([i \in 1..Len(w) |-> LowerOf(w[i])])

\* the class [a-zA-ZÀ-ÖØ-öø-ÿ0-9]
Retained(c) ==
    c \in (97..122) \cup (65..90) \cup (192..214) \cup (216..246) \cup (248..255)
          \cup (48..57)

IsWhiteSpace(c) == c \in {9, 10, 11, 12, 13, 32, 160}

RECURSIVE TrimStart(_)
TrimStart(w) ==
    IF w # <<>> /\ IsWhiteSpace(Head(w)) THEN TrimStart(Tail(w)) ELSE w

RECURSIVE TrimEnd(_)
TrimEnd(w) ==
    IF w # <<>> /\ IsWhiteSpace(w[Len(w)])
    THEN TrimEnd(SubSeq(w, 1, Len(w) - 1)) ELSE w

trim(w) == TrimEnd(TrimStart(w))

stripOnlyTrims(w) == trim(w)
stripSpecialCharacters(w) == trim(SelectSeq(w, Retained))

\* the first two statements of stem: fold, then filter
normalizeNoFold(w) == stripSpecialCharacters(w)
normalize(w) == stripSpecialCharacters(toLowerCase(w))

endsWith(w, s) ==
    /\ Len(s) <= Len(w)
    /\ SubSeq(w, Len(w) - Len(s) + 1, Len(w)) = s

\* word.slice(0, end)
slice0(w, end) ==
    LET e == IF end < 0 THEN (IF Len(w) + end < 0 THEN 0 ELSE Len(w) + end)
             ELSE (IF end > Len(w) THEN Len(w) ELSE end)
    IN  SubSeq(w, 1, e)

(***************************************************************************)
(* Rules                                                                   *)
(***************************************************************************)
canApplyRuleNoGuard(word, rule, isWholeWordMatch) ==
    IF ~endsWith(word, rule.suffix) THEN FALSE
    ELSE IF /\ Len(rule.exceptions) > 0
            /\ IF isWholeWordMatch
               THEN \E i \in 1..Len(rule.exceptions) : rule.exceptions[i] = word
               ELSE \E i \in 1..Len(rule.exceptions) : endsWith(word, rule.exceptions[i])
         THEN FALSE
    ELSE TRUE

canApplyRuleSuffixExceptions(word, rule, isWholeWordMatch) ==
    IF ~endsWith(word, rule.suffix) THEN FALSE
    ELSE IF /\ Len(rule.exceptions) > 0
            /\ \E i \in 1..Len(rule.exceptions) : endsWith(word, rule.exceptions[i])
         THEN FALSE
    ELSE IF Len(word) - Len(rule.suffix) < rule.minStemLength THEN FALSE
    ELSE TRUE

canApplyRule(word, rule, isWholeWordMatch) ==
    IF ~endsWith(word, rule.suffix) THEN FALSE
    ELSE IF /\ Len(rule.exceptions) > 0
            /\ IF isWholeWordMatch
               THEN \E i \in 1..Len(rule.exceptions) : rule.exceptions[i] = word
               ELSE \E i \in 1..Len(rule.exceptions) : endsWith(word, rule.exceptions[i])
         THEN FALSE
    ELSE IF Len(word) - Len(rule.suffix) < rule.minStemLength THEN FALSE
    ELSE TRUE

applyRuleKeepSuffix(word, rule) == word \o rule.replacement
applyRule(word, rule) ==
    slice0(word, Len(word) - Len(rule.suffix)) \o rule.replacement

(***************************************************************************)
(* One iteration of the loop over the steps                                *)
(***************************************************************************)
tooShortOriginalWord(step, word) ==
    Len(normalize(input.chars)) < step.minWordLength
tooShort(step, word) == Len(word) < step.minWordLength

conditionMiss(step, word) ==
    /\ Len(step.conditions) > 0
    /\ ~ \E i \in 1..Len(step.conditions) : endsWith(word, step.conditions[i])

\* the loop over step.rules: index of the rule that is applied, 0 if none
RECURSIVE scanFrom(_, _, _, _)
scanFrom(rules, i, word, isWholeWordMatch) ==
    IF i > Len(rules) THEN 0
    ELSE IF canApplyRule(word, rules[i], isWholeWordMatch) THEN i
    ELSE scanFrom(rules, i + 1, word, isWholeWordMatch)

RECURSIVE scanLastFrom(_, _, _, _)
scanLastFrom(rules, i, word, isWholeWordMatch) ==
    IF i > Len(rules) THEN 0
    ELSE LET later == scanLastFrom(rules, i + 1, word, isWholeWordMatch)
         IN  IF later # 0 THEN later
             ELSE IF canApplyRule(word, rules[i], isWholeWordMatch) THEN i
             ELSE 0

scanRulesLast(step, word) == scanLastFrom(step.rules, 1, word, step.isWholeWordMatch)
scanRules(step, word) == scanFrom(step.rules, 1, word, step.isWholeWordMatch)

stepResult(step, word) ==
    IF tooShort(step, word) \/ conditionMiss(step, word) THEN word
    ELSE LET r == scanRules(step, word)
         IN  IF r = 0 THEN word ELSE applyRule(word, step.rules[r])

RECURSIVE runSteps(_, _, _)
runSteps(table, i, word) ==
    IF i > Len(table) THEN word
    ELSE runSteps(table, i + 1, stepResult(table[i], word))

\* RSLPStemmer.stem as a function of the table and the argument
stem(table, v) ==
    IF IsFalsy(v) THEN v
    ELSE Str(runSteps(table, 1, normalize(v.chars)))

(***************************************************************************)
(* Rule tables the stemmer is constructed with                             *)
(***************************************************************************)
Rule(sfx, min, repl, exc) ==
    [suffix |-> sfx, minStemLength |-> min, replacement |-> repl, exceptions |-> exc]

RulePool ==
    { Rule(<<97, 115>>, 2, <<>>, <<>>),             \* {"as", 2}
      Rule(<<115>>, 1, <<>>, << <<97, 115>> >>),    \* {"s", 1, "", {"as"}}
      Rule(<<115>>, 0, <<97>>, <<>>),               \* {"s", 0, "a"}
      Rule(<<>>, 0, <<227>>, << <<97>> >>) }        \* {"", 0, "a~", {"a"}}

RuleLists ==
    {<<>>} \cup {<<r>> : r \in RulePool} \cup {<<r, q>> : r, q \in RulePool}

Step(min, whole, conds, rules) ==
    [name |-> "step", minWordLength |-> min, isWholeWordMatch |-> whole,
     conditions |-> conds, rules |-> rules]

StepSet ==
    { Step(min, whole, conds, rules) :
        min \in {0, 3}, whole \in BOOLEAN,
        conds \in {<<>>, << <<115>> >>}, rules \in RuleLists }

FirstSteps == { Step(0, FALSE, <<>>, rules) : rules \in RuleLists \ {<<>>} }

SecondSteps == { s \in StepSet : Len(s.rules) = 1 }

Tables ==
    {<<>>} \cup {<<s>> : s \in StepSet}
           \cup {<<f, s>> : f \in FirstSteps, s \in SecondSteps}

Alphabet == {33, 97, 115, 195}

Inputs == {Str(w) : w \in SeqsUpTo(Alphabet, MaxLen)} \cup {Null, Undefined}

(***************************************************************************)
(* One stem call, one action per branch of the loop body                   *)
(***************************************************************************)
Init ==
    /\ steps \in Tables
    /\ input \in Inputs
    /\ pc = "call"
    /\ stepIdx = 1
    /\ stemmed = <<>>
    /\ trace = <<>>
    /\ result = Undefined
    /\ arg = Undefined
    /\ base = Undefined
    /\ calls = <<>>
    /\ parser = <<>>
    /\ server = <<>>
    /\ http = <<>>

\* if (!word) return word;
StemFalsy ==
    /\ pc = "call"
    /\ IsFalsy(input)
    /\ result' = input
    /\ pc' = "done"
    /\ UNCHANGED <<steps, input, stepIdx, stemmed, trace, arg, base, calls, parser,
                 server, http>>

\* stemmed = stripSpecialCharacters(word.toLowerCase())
StemEnter ==
    /\ pc = "call"
    /\ ~IsFalsy(input)
    /\ stemmed' = normalize(input.chars)
    /\ stepIdx' = 1
    /\ pc' = "steps"
    /\ UNCHANGED <<steps, input, trace, result, arg, base, calls, parser,
                 server, http>>

Logged(attempted, fired, after) ==
    Append(trace, [step |-> stepIdx, before |-> stemmed, attempted |-> attempted,
                   fired |-> fired, after |-> after])

\* if (stemmed.length < step.minWordLength) continue;
StepTooShort ==
    /\ pc = "steps"
    /\ stepIdx <= Len(steps)
    /\ tooShort(steps[stepIdx], stemmed)
    /\ trace' = Logged(FALSE, 0, stemmed)
    /\ stepIdx' = stepIdx + 1
    /\ UNCHANGED <<steps, input, pc, stemmed, result, arg, base, calls, parser,
                 server, http>>

\* if (!matchesCondition) continue;
StepConditionMiss ==
    /\ pc = "steps"
    /\ stepIdx <= Len(steps)
    /\ ~tooShort(steps[stepIdx], stemmed)
    /\ conditionMiss(steps[stepIdx], stemmed)
    /\ trace' = Logged(FALSE, 0, stemmed)
    /\ stepIdx' = stepIdx + 1
    /\ UNCHANGED <<steps, input, pc, stemmed, result, arg, base, calls, parser,
                 server, http>>

\* the loop over the rules ends with a rule applied (break)
StepRuleFires ==
    /\ pc = "steps"
    /\ stepIdx <= Len(steps)
    /\ ~tooShort(steps[stepIdx], stemmed)
    /\ ~conditionMiss(steps[stepIdx], stemmed)
    /\ LET r == scanRules(steps[stepIdx], stemmed)
       IN  /\ r # 0
           /\ stemmed' = applyRule(stemmed, steps[stepIdx].rules[r])
           /\ trace' = Logged(TRUE, r, stemmed')
    /\ stepIdx' = stepIdx + 1
    /\ UNCHANGED <<steps, input, pc, result, arg, base, calls, parser,
                 server, http>>

\* the loop over the rules ends with no rule applied
StepNoRule ==
    /\ pc = "steps"
    /\ stepIdx <= Len(steps)
    /\ ~tooShort(steps[stepIdx], stemmed)
    /\ ~conditionMiss(steps[stepIdx], stemmed)
    /\ scanRules(steps[stepIdx], stemmed) = 0
    /\ trace' = Logged(TRUE, 0, stemmed)
    /\ stepIdx' = stepIdx + 1
    /\ UNCHANGED <<steps, input, pc, stemmed, result, arg, base, calls, parser,
                 server, http>>

\* return stemmed;
StemReturn ==
    /\ pc = "steps"
    /\ stepIdx > Len(steps)
    /\ result' = Str(stemmed)
    /\ pc' = "done"
    /\ UNCHANGED <<steps, input, stepIdx, stemmed, trace, arg, base, calls, parser,
                 server, http>>

Next ==
    \/ StemFalsy
    \/ StemEnter
    \/ StepTooShort
    \/ StepConditionMiss
    \/ StepRuleFires
    \/ StepNoRule
    \/ StemReturn

Spec == Init /\ [][Next]_vars

\* the stepwise call returns what the function stem returns
StepwiseAgrees == pc = "done" => result = stem(steps, input)

(***************************************************************************)
(* Properties of one stem call                                             *)
(***************************************************************************)
Entries == 1..Len(trace)
StepOf(k) == steps[trace[k].step]
Whole(k) == StepOf(k).isWholeWordMatch
RulesOf(k) == StepOf(k).rules

\* C1: steps run in table order, each on the word the previous one produced;
\* in an attempted step the rule that fires is the first rule of the list for
\* which canApplyRule holds, it is applied once and no later rule is applied.
C1_FirstApplicableRuleFires ==
    \A k \in Entries :
        /\ trace[k].step = k
        /\ trace[k].before =
              IF k = 1 THEN normalize(input.chars) ELSE trace[k - 1].after
        /\ trace[k].attempted =>
              /\ trace[k].fired \in 0..Len(RulesOf(k))
              /\ \A j \in 1..Len(RulesOf(k)) :
                    (trace[k].fired = 0 \/ j < trace[k].fired)
                        => ~canApplyRule(trace[k].before, RulesOf(k)[j], Whole(k))
              /\ trace[k].fired # 0 =>
                    /\ canApplyRule(trace[k].before, RulesOf(k)[trace[k].fired], Whole(k))
                    /\ trace[k].after =
                          applyRule(trace[k].before, RulesOf(k)[trace[k].fired])

\* a first step whose first rule fires although its second rule is applicable
\* too and would give another word, followed by a second step that fires
C1_Witness ==
    /\ Len(trace) = 2
    /\ Len(RulesOf(1)) = 2
    /\ trace[1].fired = 1
    /\ canApplyRule(trace[1].before, RulesOf(1)[2], Whole(1))
    /\ applyRule(trace[1].before, RulesOf(1)[2]) # trace[1].after
    /\ trace[2].fired # 0
    /\ trace[2].before # trace[1].before

AccentedVowel(c) ==
    c \in (192..197) \cup (200..207) \cup (210..214) \cup (217..221)
          \cup (224..229) \cup (232..239) \cup (242..246) \cup (249..253) \cup {255}

\* C2: the value returned for a non-empty string contains no accented vowel
C2_ResultHasNoAccent ==
    (pc = "done" /\ input.kind = "string" /\ Len(input.chars) > 0)
        => \A i \in 1..Len(result.chars) : ~AccentedVowel(result.chars[i])

\* C3: a rule never fires on a word w with
\* length(w) - length(suffix) < minStemLength, so the part kept before the
\* replacement has at least minStemLength characters.
C3_GuardEnforced ==
    \A k \in Entries :
        trace[k].fired # 0 =>
            LET R == RulesOf(k)[trace[k].fired]
            IN  /\ Len(trace[k].before) - Len(R.suffix) >= R.minStemLength
                /\ Len(trace[k].after) - Len(R.replacement) >= R.minStemLength

\* the first rule ends the word and no exception vetoes it, the guard alone
\* rejects it, and the scan goes on to the second rule, which fires
C3_Witness ==
    \E k \in Entries :
        /\ Len(RulesOf(k)) = 2
        /\ endsWith(trace[k].before, RulesOf(k)[1].suffix)
        /\ Len(RulesOf(k)[1].exceptions) = 0
        /\ Len(trace[k].before) - Len(RulesOf(k)[1].suffix) < RulesOf(k)[1].minStemLength
        /\ trace[k].fired = 2
        /\ RulesOf(k)[2].minStemLength > 0

\* the veto of the claim: equality in whole-word mode, suffix match otherwise
Vetoed(w, R, whole) ==
    \/ whole /\ \E i \in 1..Len(R.exceptions) : R.exceptions[i] = w
    \/ ~whole /\ \E i \in 1..Len(R.exceptions) :
                    /\ Len(R.exceptions[i]) <= Len(w)
                    /\ \A n \in 1..Len(R.exceptions[i]) :
                          w[Len(w) - Len(R.exceptions[i]) + n] = R.exceptions[i][n]

\* C4: a rule whose suffix matches is vetoed exactly when the word equals an
\* exception (whole-word mode) or ends with one (otherwise): a vetoed rule
\* never fires, and a rule that is not vetoed and passes the guard is not
\* passed over.
C4_ExceptionCarveOut ==
    \A k \in Entries :
        trace[k].attempted =>
            \A j \in 1..Len(RulesOf(k)) :
                LET R == RulesOf(k)[j]
                    w == trace[k].before
                IN  endsWith(w, R.suffix) =>
                        /\ Vetoed(w, R, Whole(k)) => trace[k].fired # j
                        /\ (~Vetoed(w, R, Whole(k))
                              /\ Len(w) - Len(R.suffix) >= R.minStemLength)
                             => trace[k].fired \in 1..j

\* whole-word mode: the word ends with an exception of the rule without being
\* equal to it, and the rule fires
C4_Witness ==
    \E k \in Entries :
        /\ Whole(k)
        /\ trace[k].fired # 0
        /\ LET R == RulesOf(k)[trace[k].fired]
           IN  /\ \E i \in 1..Len(R.exceptions) : endsWith(trace[k].before, R.exceptions[i])
               /\ \A i \in 1..Len(R.exceptions) : R.exceptions[i] # trace[k].before
               /\ trace[k].after # trace[k].before

\* C5: stem("") = "", stem(null) = null, stem(undefined) = undefined, and no
\* step of the table is consulted.
C5_IdentityOnEmptyOrAbsent ==
    (pc = "done" /\ input \in {Str(<<>>), Null, Undefined})
        => /\ result = input
           /\ trace = <<>>
           /\ stepIdx = 1
           /\ stemmed = <<>>

\* the empty string returned by a stemmer whose first step would change it
C5_Witness ==
    /\ pc = "done"
    /\ input = Str(<<>>)
    /\ result = Str(<<>>)
    /\ Len(steps) > 0
    /\ stepResult(steps[1], <<>>) # <<>>

\* C6 as stated: of two rules of a step whose suffixes both end the word,
\* the later one never fires.
C6_FirstSuffixMatchWins ==
    \A k \in Entries :
        trace[k].attempted =>
            \A i, j \in 1..Len(RulesOf(k)) :
                (/\ i < j
                 /\ endsWith(trace[k].before, RulesOf(k)[i].suffix)
                 /\ endsWith(trace[k].before, RulesOf(k)[j].suffix))
                    => trace[k].fired # j

\* C6 amended: of two rules of a step that both satisfy canApplyRule on the
\* word, the later one never fires; the rule that fires is the earlier one or
\* a rule listed before it.
C6_FirstApplicableWins ==
    \A k \in Entries :
        trace[k].attempted =>
            \A i, j \in 1..Len(RulesOf(k)) :
                (/\ i < j
                 /\ canApplyRule(trace[k].before, RulesOf(k)[i], Whole(k))
                 /\ canApplyRule(trace[k].before, RulesOf(k)[j], Whole(k)))
                    => /\ trace[k].fired # j
                       /\ trace[k].fired \in 1..i

\* two different applicable rules with different outcomes; the first fires
C6_Witness ==
    \E k \in Entries :
        /\ Len(RulesOf(k)) = 2
        /\ canApplyRule(trace[k].before, RulesOf(k)[1], Whole(k))
        /\ canApplyRule(trace[k].before, RulesOf(k)[2], Whole(k))
        /\ applyRule(trace[k].before, RulesOf(k)[1])
              # applyRule(trace[k].before, RulesOf(k)[2])
        /\ trace[k].fired = 1
        /\ trace[k].after = applyRule(trace[k].before, RulesOf(k)[1])

\* C7: a step is attempted iff the current word (as left by the earlier
\* steps) has at least minWordLength characters and, when the step has
\* conditions, ends with one of them; a step that is not attempted evaluates
\* no rule and leaves the word unchanged.
C7_StageGating ==
    \A k \in Entries :
        LET w == IF k = 1 THEN normalize(input.chars) ELSE trace[k - 1].after
            S == StepOf(k)
        IN  /\ trace[k].attempted <=>
                  /\ Len(w) >= S.minWordLength
                  /\ \/ S.conditions = <<>>
                     \/ \E i \in 1..Len(S.conditions) : endsWith(w, S.conditions[i])
            /\ ~trace[k].attempted =>
                  /\ trace[k].fired = 0
                  /\ trace[k].after = w

\* the second step is skipped for a word the first step made too short,
\* although the folded and filtered input was long enough
C7_Witness ==
    /\ Len(trace) = 2
    /\ trace[1].fired # 0
    /\ ~trace[2].attempted
    /\ Len(normalize(input.chars)) >= steps[2].minWordLength
    /\ Len(trace[2].before) < steps[2].minWordLength

\* C8: a rule that fires replaces the trailing suffix by the replacement; a
\* step in which no rule fires leaves the word unchanged; the call returns the
\* word left by the last step, which is the folded and filtered input when no
\* rule fired at all.
C8_StageEffect ==
    /\ \A k \in Entries :
          IF trace[k].fired # 0
          THEN LET R == RulesOf(k)[trace[k].fired]
                   w == trace[k].before
               IN  trace[k].after =
                      [n \in 1..(Len(w) - Len(R.suffix)) |-> w[n]] \o R.replacement
          ELSE trace[k].after = trace[k].before
    /\ (pc = "done" /\ input.kind = "string" /\ Len(input.chars) > 0) =>
          /\ result.kind = "string"
          /\ result.chars =
                IF trace = <<>> THEN normalize(input.chars)
                ELSE trace[Len(trace)].after
          /\ (\A k \in Entries : trace[k].fired = 0)
                => result.chars = normalize(input.chars)

\* pure truncation in the first step, suffix replaced in the second
C8_Witness ==
    /\ pc = "done"
    /\ Len(trace) = 2
    /\ trace[1].fired # 0
    /\ RulesOf(1)[trace[1].fired].replacement = <<>>
    /\ Len(RulesOf(1)[trace[1].fired].suffix) > 0
    /\ trace[2].fired # 0
    /\ RulesOf(2)[trace[2].fired].replacement # <<>>
    /\ Len(RulesOf(2)[trace[2].fired].suffix) > 0
    /\ input.chars # normalize(input.chars)

(***************************************************************************)
(* Paired calls: the same stemmer called on two spellings of a word        *)
(***************************************************************************)
PairTables ==
    {<<>>} \cup {<<s>> : s \in SecondSteps}
           \cup {<<f, s>> : f \in {t \in FirstSteps : Len(t.rules) = 1},
                            s \in {t \in SecondSteps : t.minWordLength = 0
                                                        /\ t.conditions = <<>>}}

\* String.prototype.toUpperCase on one code unit
UpperOf(c) ==
    IF c \in 97..122 THEN <<c - 32>>
    ELSE IF c \in (224..254) \ {247} THEN <<c - 32>>
    ELSE IF c = 223 THEN <<83, 83>>
    ELSE IF c = 255 THEN <<376>>
    ELSE <<c>>

toUpperCase(w) == Flatten([i \in 1..Len(w) |-> UpperOf(w[i])])

titleCase(w) ==
    IF w = <<>> THEN w
    ELSE toUpperCase(<<Head(w)>>) \o toLowerCase(Tail(w))

\* every spelling of w that differs from it only in the case of its letters
RECURSIVE Spellings(_)
Spellings(w) ==
    IF w = <<>> THEN {<<>>}
    ELSE {h \o t : h \in {LowerOf(Head(w)), UpperOf(Head(w))}, t \in Spellings(Tail(w))}

\* letters of the retained class: S, a, s, sharp s
CaseAlphabet == {83, 97, 115, 223}

CaseWords == SeqsUpTo(CaseAlphabet, MaxLen) \ {<<>>}

InitCase ==
    /\ steps \in PairTables
    /\ input \in {Str(w) : w \in CaseWords}
    /\ pc = "idle"
    /\ stepIdx = 1
    /\ stemmed = <<>>
    /\ trace = <<>>
    /\ result = Undefined
    /\ arg = Undefined
    /\ base = Undefined
    /\ calls = <<>>
    /\ parser = <<>>
    /\ server = <<>>
    /\ http = <<>>

\* stem(lower(w))
StemLowerCase ==
    /\ pc = "idle"
    /\ base' = stem(steps, Str(toLowerCase(input.chars)))
    /\ pc' = "based"
    /\ UNCHANGED <<steps, input, stepIdx, stemmed, trace, result, arg, calls, parser,
                 server, http>>

Compare(spelling) ==
    /\ pc = "based"
    /\ arg' = Str(spelling)
    /\ result' = stem(steps, arg')
    /\ pc' = "compared"
    /\ UNCHANGED <<steps, input, stepIdx, stemmed, trace, base, calls, parser,
                 server, http>>

\* stem(upper(w))
StemUpperCase == Compare(toUpperCase(input.chars))

\* stem(titleCase(w))
StemTitleCase == Compare(titleCase(input.chars))

\* stem of a mixed-case spelling of w
StemMixedCase == \E v \in Spellings(input.chars) : Compare(v)

NextCase ==
    \/ StemLowerCase
    \/ StemUpperCase
    \/ StemTitleCase
    \/ StemMixedCase

SpecCase == InitCase /\ [][NextCase]_vars

\* C9 as stated: for every word over the retained alphabet, the stem of its
\* upper-case, title-case or mixed-case spelling is the stem of its
\* lower-case spelling.
C9_CaseInvariance == pc = "compared" => result = base

\* C9 amended: the same, for words that do not contain the sharp s (U+00DF),
\* the one retained letter whose upper-case form ("SS") does not fold back
\* to it.
C9_CaseInvarianceWithoutSharpS ==
    (pc = "compared" /\ \A i \in 1..Len(input.chars) : input.chars[i] # 223)
        => result = base

\* an upper-case spelling that differs from the lower-case one, stemmed to the
\* same word by a rule that fired
C9_Witness ==
    /\ pc = "compared"
    /\ \A i \in 1..Len(input.chars) : input.chars[i] # 223
    /\ arg.chars = toUpperCase(input.chars)
    /\ arg.chars # toLowerCase(input.chars)
    /\ result = base
    /\ result.chars # toLowerCase(input.chars)

(***************************************************************************)
(* Paired calls: a word with and without trailing punctuation              *)
(***************************************************************************)
\* '!', the digit 1, a, s; and outside the retained class '!' and capital y
\* with diaeresis (U+0178)
PunctAlphabet == {33, 49, 97, 115}

Punctuation == {33, 376}

PunctWords == SeqsUpTo(PunctAlphabet, MaxLen) \ {<<>>}

PunctStrings == SeqsUpTo(Punctuation, MaxPunct) \ {<<>>}

IsDigit(c) == c \in 48..57

InitPunct ==
    /\ steps \in PairTables
    /\ input \in {Str(w) : w \in PunctWords}
    /\ pc = "idle"
    /\ stepIdx = 1
    /\ stemmed = <<>>
    /\ trace = <<>>
    /\ result = Undefined
    /\ arg = Undefined
    /\ base = Undefined
    /\ calls = <<>>
    /\ parser = <<>>
    /\ server = <<>>
    /\ http = <<>>

\* stem(w)
StemPlain ==
    /\ pc = "idle"
    /\ stemmed' = normalize(input.chars)
    /\ base' = stem(steps, input)
    /\ pc' = "based"
    /\ UNCHANGED <<steps, input, stepIdx, trace, result, arg, calls, parser,
                 server, http>>

\* stem(w + p)
StemPunctuated ==
    /\ pc = "based"
    /\ \E p \in PunctStrings : arg' = Str(input.chars \o p)
    /\ result' = stem(steps, arg')
    /\ pc' = "compared"
    /\ UNCHANGED <<steps, input, stepIdx, stemmed, trace, base, calls, parser,
                 server, http>>

NextPunct ==
    \/ StemPlain
    \/ StemPunctuated

SpecPunct == InitPunct /\ [][NextPunct]_vars

\* the string p appended to w in the second call
Appended == SubSeq(arg.chars, Len(input.chars) + 1, Len(arg.chars))

\* C10 as stated: stem(w + p) = stem(w) for every p made of characters
\* outside the retained class, and the filter keeps the digits of w.
C10_PunctuationInvariance ==
    /\ pc = "compared" => result = base
    /\ pc \in {"based", "compared"} =>
          SelectSeq(stemmed, IsDigit) = SelectSeq(input.chars, IsDigit)

FoldsOutside(c) ==
    \A n \in 1..Len(LowerOf(c)) : ~Retained(LowerOf(c)[n])

\* C10 amended: stem(w + p) = stem(w) for every p made of characters whose
\* lower-case form is outside the retained class (the fold runs before the
\* filter), and the filter keeps the digits of w.
C10_PunctuationInvarianceAfterFold ==
    /\ (pc = "compared" /\ \A i \in 1..Len(Appended) : FoldsOutside(Appended[i]))
          => /\ result = base
             /\ normalize(arg.chars) = stemmed
    /\ pc \in {"based", "compared"} =>
          SelectSeq(stemmed, IsDigit) = SelectSeq(input.chars, IsDigit)

\* a word with a digit, stemmed by a rule that fired, and the same word
\* followed by two punctuation marks
C10_Witness ==
    /\ pc = "compared"
    /\ Len(Appended) = 2
    /\ \A i \in 1..Len(Appended) : FoldsOutside(Appended[i])
    /\ \E i \in 1..Len(input.chars) : IsDigit(input.chars[i])
    /\ \E i \in 1..Len(input.chars) : ~Retained(input.chars[i])
    /\ result = base
    /\ base.chars # normalize(input.chars)

(***************************************************************************)
(* Concurrent calls of stem on one stemmer                                 *)
(***************************************************************************)
ConcTables ==
    {<<f, s>> : f, s \in {t \in FirstSteps : Len(t.rules) = 1}}

ConcInputs == {Str(w) : w \in SeqsUpTo({97, 115}, 2)} \cup {Null}

Callers == 1..NumCalls

InitConc ==
    /\ steps \in ConcTables
    /\ calls \in [Callers ->
                    {[input |-> v, pc |-> "call", stepIdx |-> 1,
                      stemmed |-> <<>>, result |-> Undefined] : v \in ConcInputs}]
    /\ input = Undefined
    /\ pc = "concurrent"
    /\ stepIdx = 1
    /\ stemmed = <<>>
    /\ trace = <<>>
    /\ result = Undefined
    /\ arg = Undefined
    /\ base = Undefined
    /\ parser = <<>>
    /\ server = <<>>
    /\ http = <<>>

\* the word call c works on: its own local `stemmed`
wordOfFirstCall(cs, c) == cs[1].stemmed
wordOf(cs, c) == cs[c].stemmed

ConcUnchanged ==
    UNCHANGED <<steps, input, pc, stepIdx, stemmed, trace, result, arg, base,
                parser, server, http>>

\* if (!word) return word;
CallFalsy(c) ==
    /\ calls[c].pc = "call"
    /\ IsFalsy(calls[c].input)
    /\ calls' = [calls EXCEPT ![c].result = calls[c].input, ![c].pc = "done"]
    /\ ConcUnchanged

\* let stemmed = stripSpecialCharacters(word.toLowerCase())
CallEnter(c) ==
    /\ calls[c].pc = "call"
    /\ ~IsFalsy(calls[c].input)
    /\ calls' = [calls EXCEPT ![c].stemmed = normalize(calls[c].input.chars),
                              ![c].pc = "steps"]
    /\ ConcUnchanged

\* one iteration of the loop over this.steps
CallStep(c) ==
    /\ calls[c].pc = "steps"
    /\ calls[c].stepIdx <= Len(steps)
    /\ calls' = [calls EXCEPT
                   ![c].stemmed = stepResult(steps[calls[c].stepIdx], wordOf(calls, c)),
                   ![c].stepIdx = calls[c].stepIdx + 1]
    /\ ConcUnchanged

\* return stemmed;
CallReturn(c) ==
    /\ calls[c].pc = "steps"
    /\ calls[c].stepIdx > Len(steps)
    /\ calls' = [calls EXCEPT ![c].result = Str(wordOf(calls, c)), ![c].pc = "done"]
    /\ ConcUnchanged

NextConc ==
    \E c \in Callers :
        \/ CallFalsy(c)
        \/ CallEnter(c)
        \/ CallStep(c)
        \/ CallReturn(c)

SpecConc == InitConc /\ [][NextConc]_vars

\* C11: no step of a stem call changes the table, and under every
\* interleaving each finished call has returned what stem returns for its
\* argument when it runs alone; calls with the same argument agree.
C11_CallsAreIndependent ==
    /\ [][steps' = steps]_vars
    /\ [](\A c \in Callers :
             calls[c].pc = "done" => calls[c].result = stem(steps, calls[c].input))
    /\ [](\A c, d \in Callers :
             (calls[c].pc = "done" /\ calls[d].pc = "done"
                 /\ calls[c].input = calls[d].input)
                => calls[c].result = calls[d].result)

\* two calls with different arguments, interleaved (the second was half way
\* when the first returned), both finished, both changed by a rule
C11_Witness ==
    /\ \A c \in {1, 2} : calls[c].pc = "done" /\ calls[c].input.kind = "string"
    /\ calls[1].input # calls[2].input
    /\ calls[1].result # calls[2].result
    /\ \A c \in {1, 2} : calls[c].result.chars # normalize(calls[c].input.chars)

(***************************************************************************)
(* Rule file parser (backend/src/parser.ts).  A line is the sequence of    *)
(* its code units:  32 ' '  34 '"'  35 '#'  44 ','  48..57 '0'..'9'        *)
(*   59 ';'  123 '{'  125 '}'                                              *)
(* An index 0 stands for "no match" in the matchers below.                 *)
(***************************************************************************)
\* \s*
RECURSIVE ws(_, _)
ws(l, i) ==
    IF i = 0 THEN 0
    ELSE IF i <= Len(l) /\ IsWhiteSpace(l[i]) THEN ws(l, i + 1)
    ELSE i

\* one literal character
lit(l, i, ch) ==
    IF i # 0 /\ i <= Len(l) /\ l[i] = ch THEN i + 1 ELSE 0

\* index of the first ch at or after i, 0 if there is none
RECURSIVE indexFrom(_, _, _)
indexFrom(l, i, ch) ==
    IF i = 0 \/ i > Len(l) THEN 0
    ELSE IF l[i] = ch THEN i
    ELSE indexFrom(l, i + 1, ch)

\* "([^"]+)" with min = 1, "([^"]*)" with min = 0: index after the closing
\* quote
quotedEnd(l, i, min) ==
    LET open == lit(l, i, 34)
        close == indexFrom(l, open, 34)
    IN  IF open = 0 \/ close = 0 \/ close - open < min THEN 0 ELSE close + 1

\* the group of a match of quotedEnd that ended at e and started at i
quotedText(l, i, e) == SubSeq(l, i + 1, e - 2)

\* (\d+): index after the digits
RECURSIVE digitRun(_, _)
digitRun(l, i) ==
    IF i <= Len(l) /\ l[i] \in 48..57 THEN digitRun(l, i + 1) ELSE i

digitsEnd(l, i) ==
    IF i = 0 \/ digitRun(l, i) = i THEN 0 ELSE digitRun(l, i)

\* parseInt(digits, 10)
RECURSIVE parseInt(_)
parseInt(ds) ==
    IF ds = <<>> THEN 0
    ELSE 10 * parseInt(SubSeq(ds, 1, Len(ds) - 1)) + (ds[Len(ds)] - 48)

\* '.' matches every character but the line terminators
RECURSIVE dotRun(_, _)
dotRun(l, i) ==
    IF i <= Len(l) /\ l[i] \notin {10, 13, 8232, 8233} THEN dotRun(l, i + 1) ELSE i

\* every match of /"([^"]+)"/g in text from position i on, each trimmed
RECURSIVE quotedAll(_, _)
quotedAll(text, i) ==
    LET open == indexFrom(text, i, 34)
        close == indexFrom(text, (IF open = 0 THEN 0 ELSE open + 1), 34)
    IN  IF open = 0 \/ close = 0 THEN <<>>
        ELSE IF close = open + 1 THEN quotedAll(text, open + 1)
        ELSE <<trim(SubSeq(text, open + 1, close - 1))>> \o quotedAll(text, close + 1)

\* /{[\s]*"([^"]+)"[\s]*,[\s]*(\d+)[\s]*,[\s]*(\d+)[\s]*,[\s]*(.+)/ tried at i
stepRegexAt(l, i) ==
    LET p1 == lit(l, i, 123)
        q1 == ws(l, p1)
        p2 == quotedEnd(l, q1, 1)
        p3 == lit(l, ws(l, p2), 44)
        d1 == ws(l, p3)
        p4 == digitsEnd(l, d1)
        p5 == lit(l, ws(l, p4), 44)
        d2 == ws(l, p5)
        p6 == digitsEnd(l, d2)
        p7 == lit(l, ws(l, p6), 44)
        p8 == ws(l, p7)
    IN  IF p8 = 0 \/ p8 > Len(l)
        THEN [ok |-> FALSE, g1 |-> <<>>, g2 |-> <<>>, g3 |-> <<>>, g4 |-> <<>>]
        ELSE [ok |-> TRUE,
              g1 |-> quotedText(l, q1, p2),
              g2 |-> SubSeq(l, d1, p4 - 1),
              g3 |-> SubSeq(l, d2, p6 - 1),
              g4 |-> SubSeq(l, p8, dotRun(l, p8) - 1)]

\* line.match(...): the leftmost match
RECURSIVE stepMatchFrom(_, _)
stepMatchFrom(l, i) ==
    IF i > Len(l) THEN stepRegexAt(l, 0)
    ELSE IF stepRegexAt(l, i).ok THEN stepRegexAt(l, i)
    ELSE stepMatchFrom(l, i + 1)

\* a pattern that stops after the first number
stepMatchLoose(l) ==
    LET q1 == ws(l, lit(l, 1, 123))
        p2 == quotedEnd(l, q1, 1)
        d1 == ws(l, lit(l, ws(l, p2), 44))
        p4 == digitsEnd(l, d1)
    IN  IF p4 = 0 THEN stepRegexAt(l, 0)
        ELSE [ok |-> TRUE, g1 |-> quotedText(l, q1, p2),
              g2 |-> SubSeq(l, d1, p4 - 1), g3 |-> <<>>,
              g4 |-> SubSeq(l, p4, Len(l))]
stepMatch(l) == stepMatchFrom(l, 1)

\* parseStep(line) when the line matches
parseStep(l) ==
    LET m == stepMatch(l)
    IN  [name |-> SelectSeq(m.g1, LAMBDA c : c # 34),
         minWordLength |-> parseInt(m.g2),
         isWholeWordMatch |-> (m.g3 = <<49>>),
         conditions |-> quotedAll(trim(m.g4), 1),
         rules |-> <<>>]

\* (?:[\s]*,[\s]*"([^"]*)")? tried at i: index after it, 0 if it does not match
replacementEnd(l, i) == quotedEnd(l, ws(l, lit(l, ws(l, i), 44)), 0)

\* (?:[\s]*,[\s]*\{([^\}]*)\})? tried at i: index after it, 0 if it does not match
exceptionsOpen(l, i) == lit(l, ws(l, lit(l, ws(l, i), 44)), 123)
exceptionsEnd(l, i) ==
    LET close == indexFrom(l, exceptionsOpen(l, i), 125)
    IN  IF close = 0 THEN 0 ELSE close + 1

\* [\s]*\} tried at i
closes(l, i) == lit(l, ws(l, i), 125) # 0

\* /\{[\s]*"([^"]*)"[\s]*,[\s]*(\d+)(?:...)?(?:...)?[\s]*\}/ tried at i; the
\* optional groups are greedy: both, the first only, the second only, none
ruleRegexAt(l, i) ==
    LET p1 == lit(l, i, 123)
        q1 == ws(l, p1)
        p2 == quotedEnd(l, q1, 0)
        p3 == lit(l, ws(l, p2), 44)
        d1 == ws(l, p3)
        p4 == digitsEnd(l, d1)
        r  == IF p4 = 0 THEN 0 ELSE replacementEnd(l, p4)
        re == IF r = 0 THEN 0 ELSE exceptionsEnd(l, r)
        e  == IF p4 = 0 THEN 0 ELSE exceptionsEnd(l, p4)
        none == [ok |-> FALSE, g1 |-> <<>>, g2 |-> <<>>, has3 |-> FALSE,
                 g3 |-> <<>>, g4 |-> <<>>]
        some == [none EXCEPT !.ok = TRUE, !.g1 = quotedText(l, q1, p2),
                             !.g2 = SubSeq(l, d1, p4 - 1)]
        repl == quotedText(l, ws(l, lit(l, ws(l, p4), 44)), r)
    IN  IF p4 = 0 THEN none
        ELSE IF re # 0 /\ closes(l, re)
             THEN [some EXCEPT !.has3 = TRUE, !.g3 = repl,
                               !.g4 = SubSeq(l, exceptionsOpen(l, r), re - 2)]
        ELSE IF r # 0 /\ closes(l, r)
             THEN [some EXCEPT !.has3 = TRUE, !.g3 = repl]
        ELSE IF e # 0 /\ closes(l, e)
             THEN [some EXCEPT !.g4 = SubSeq(l, exceptionsOpen(l, p4), e - 2)]
        ELSE IF closes(l, p4) THEN some
        ELSE none

RECURSIVE ruleMatchFrom(_, _)
ruleMatchFrom(l, i) ==
    IF i > Len(l) THEN ruleRegexAt(l, 0)
    ELSE IF ruleRegexAt(l, i).ok THEN ruleRegexAt(l, i)
    ELSE ruleMatchFrom(l, i + 1)

ruleMatch(l) == ruleMatchFrom(l, 1)

\* parseRule(line) when the line matches
parseRule(l) ==
    LET m == ruleMatch(l)
    IN  [suffix |-> SelectSeq(m.g1, LAMBDA c : c # 34),
         minStemLength |-> parseInt(m.g2),
         replacement |-> IF m.has3 THEN SelectSeq(m.g3, LAMBDA c : c # 34) ELSE <<>>,
         exceptions |-> quotedAll(trim(m.g4), 1)]

(***************************************************************************)
(* parseRSLPRules, one action per branch of the loop over the lines, and   *)
(* the start of the server process (backend/src/index.ts)                  *)
(***************************************************************************)
\* trimmedLine.length === 0
isBlank(t) == Len(t) = 0

\* trimmedLine.startsWith('#')
isCommentNever(t) == FALSE
isComment(t) == Len(t) >= 1 /\ t[1] = 35

\* trimmedLine.endsWith(';')
isTerminatedByBoth(t) == Len(t) >= 2 /\ SubSeq(t, Len(t) - 1, Len(t)) = <<125, 59>>
isTerminated(t) == Len(t) >= 1 /\ t[Len(t)] = 59

\* trimmedLine.slice(0, -2)
withoutTerminator(t) == slice0(t, 0 - 2)

\* currentStep.rules.push(rule)
pushRuleFront(step, rule) == [step EXCEPT !.rules = <<rule>> \o @]
pushRuleLost(step, rule) == step
pushRule(step, rule) == [step EXCEPT !.rules = Append(@, rule)]

\* throw new Error(`Invalid step format: ${line}`)
invalidStep(l) == [message |-> "Invalid step format", line |-> l]

\* throw new Error(`Invalid rule format: ${line}`)
invalidRuleNoLine(l) == [message |-> "Invalid rule format", line |-> <<>>]
invalidRule(l) == [message |-> "Invalid rule format", line |-> l]

\* return steps;
returnedWithOpenStep(out, cur) == out \o cur
returned(out, cur) == out

\* if (!initialized) process.exit(1)
mustExitNever(initialized) == FALSE
mustExit(initialized) == ~initialized

\* the lines of the rule file
BlankLine == <<32>>
CommentLine == <<32, 35, 32, 99>>
\* { "P", 3, 1, {"s"},
HeaderP == <<123, 32, 34, 80, 34, 44, 32, 51, 44, 32, 49, 44, 32, 123, 34, 115, 34, 125, 44>>
\* {"V",0,0,{},
HeaderV == <<123, 34, 86, 34, 44, 48, 44, 48, 44, 123, 125, 44>>
\*   {"as",1,"a",{"sas"}},
RuleAs == <<32, 32, 123, 34, 97, 115, 34, 44, 49, 44, 34, 97, 34, 44, 123, 34, 115, 97, 115, 34, 125, 125, 44>>
\* {"s",2},
RuleS == <<123, 34, 115, 34, 44, 50, 125, 44>>
\* {"s",1,"",{"as"}}};
LastRuleS == <<123, 34, 115, 34, 44, 49, 44, 34, 34, 44, 123, 34, 97, 115, 34, 125, 125, 125, 59>>
\*  {"s"},
BadRule == <<32, 123, 34, 115, 34, 125, 44>>
\* {"s"}};
BadLastRule == <<123, 34, 115, 34, 125, 125, 59>>

LineSet ==
    {BlankLine, CommentLine, HeaderP, HeaderV, RuleAs, RuleS, LastRuleS,
     BadRule, BadLastRule}

Sources == SeqsUpTo(LineSet, MaxLines)

InitBoot ==
    /\ parser \in {[lines |-> src, lineIdx |-> 1, currentStep |-> <<>>,
                     steps |-> <<>>, status |-> "running", error |-> <<>>,
                     returned |-> <<>>, events |-> <<>>] : src \in Sources}
    /\ server = [pc |-> "initializing", stemmer |-> <<>>, initialized |-> FALSE,
                 exitCode |-> <<>>, listening |-> FALSE, served |-> 0]
    /\ steps = <<>>
    /\ input = Undefined
    /\ pc = "boot"
    /\ stepIdx = 1
    /\ stemmed = <<>>
    /\ trace = <<>>
    /\ result = Undefined
    /\ arg = Undefined
    /\ base = Undefined
    /\ calls = <<>>
    /\ http = <<>>

BootUnchanged ==
    UNCHANGED <<steps, input, pc, stepIdx, stemmed, trace, result, arg, base,
                calls, http>>

AtLine ==
    /\ parser.status = "running"
    /\ parser.lineIdx <= Len(parser.lines)

Trimmed == trim(parser.lines[parser.lineIdx])

Advance(event, cur, out) ==
    parser' = [parser EXCEPT !.lineIdx = @ + 1, !.currentStep = cur,
                             !.steps = out, !.events = Append(@, event)]

Throw(err) ==
    parser' = [parser EXCEPT !.status = "threw", !.error = <<err>>,
                             !.events = Append(@, "error")]

\* if (trimmedLine.length === 0) continue;
ParseBlank ==
    /\ AtLine
    /\ isBlank(Trimmed)
    /\ Advance("blank", parser.currentStep, parser.steps)
    /\ UNCHANGED server
    /\ BootUnchanged

\* if (trimmedLine.startsWith('#')) continue;
ParseComment ==
    /\ AtLine
    /\ ~isBlank(Trimmed)
    /\ isComment(Trimmed)
    /\ Advance("comment", parser.currentStep, parser.steps)
    /\ UNCHANGED server
    /\ BootUnchanged

Significant == AtLine /\ ~isBlank(Trimmed) /\ ~isComment(Trimmed)

\* if (!currentStep) { currentStep = parseStep(trimmedLine); continue; }
ParseHeader ==
    /\ Significant
    /\ parser.currentStep = <<>>
    /\ stepMatch(Trimmed).ok
    /\ Advance("open", <<parseStep(Trimmed)>>, parser.steps)
    /\ UNCHANGED server
    /\ BootUnchanged

\* parseStep throws
ParseHeaderError ==
    /\ Significant
    /\ parser.currentStep = <<>>
    /\ ~stepMatch(Trimmed).ok
    /\ Throw(invalidStep(Trimmed))
    /\ UNCHANGED server
    /\ BootUnchanged

\* if (trimmedLine.endsWith(';')) { ... steps.push(currentStep); ... }
ParseLastRule ==
    /\ Significant
    /\ parser.currentStep # <<>>
    /\ isTerminated(Trimmed)
    /\ ruleMatch(withoutTerminator(Trimmed)).ok
    /\ Advance("close", <<>>,
               Append(parser.steps,
                      pushRule(parser.currentStep[1],
                               parseRule(withoutTerminator(Trimmed)))))
    /\ UNCHANGED server
    /\ BootUnchanged

\* parseRule(trimmedLine.slice(0, -2)) throws
ParseLastRuleError ==
    /\ Significant
    /\ parser.currentStep # <<>>
    /\ isTerminated(Trimmed)
    /\ ~ruleMatch(withoutTerminator(Trimmed)).ok
    /\ Throw(invalidRule(withoutTerminator(Trimmed)))
    /\ UNCHANGED server
    /\ BootUnchanged

\* const rule = parseRule(trimmedLine); currentStep.rules.push(rule);
ParseRule ==
    /\ Significant
    /\ parser.currentStep # <<>>
    /\ ~isTerminated(Trimmed)
    /\ ruleMatch(Trimmed).ok
    /\ Advance("rule", <<pushRule(parser.currentStep[1], parseRule(Trimmed))>>,
               parser.steps)
    /\ UNCHANGED server
    /\ BootUnchanged

\* parseRule(trimmedLine) throws
ParseRuleError ==
    /\ Significant
    /\ parser.currentStep # <<>>
    /\ ~isTerminated(Trimmed)
    /\ ~ruleMatch(Trimmed).ok
    /\ Throw(invalidRule(Trimmed))
    /\ UNCHANGED server
    /\ BootUnchanged

\* return steps;
ParseReturn ==
    /\ parser.status = "running"
    /\ parser.lineIdx > Len(parser.lines)
    /\ parser' = [parser EXCEPT !.status = "returned",
                                !.returned = returned(parser.steps, parser.currentStep)]
    /\ UNCHANGED server
    /\ BootUnchanged

\* initializeStemmer: stemmer = new RSLPStemmer(steps); return true;
InitializeOk ==
    /\ server.pc = "initializing"
    /\ parser.status = "returned"
    /\ server' = [server EXCEPT !.stemmer = <<parser.returned>>,
                                !.initialized = TRUE, !.pc = "initialized"]
    /\ UNCHANGED parser
    /\ BootUnchanged

\* initializeStemmer: catch (error) { ...; return false; }
InitializeFail ==
    /\ server.pc = "initializing"
    /\ parser.status = "threw"
    /\ server' = [server EXCEPT !.initialized = FALSE, !.pc = "initialized"]
    /\ UNCHANGED parser
    /\ BootUnchanged

\* if (!initialized) { ...; process.exit(1); }
Exit ==
    /\ server.pc = "initialized"
    /\ mustExit(server.initialized)
    /\ server' = [server EXCEPT !.exitCode = <<1>>, !.pc = "exited"]
    /\ UNCHANGED parser
    /\ BootUnchanged

\* new Elysia()...listen(3000)
Listen ==
    /\ server.pc = "initialized"
    /\ ~mustExit(server.initialized)
    /\ server' = [server EXCEPT !.listening = TRUE, !.pc = "listening"]
    /\ UNCHANGED parser
    /\ BootUnchanged

\* a POST /stem request is handled
ServeStem ==
    /\ server.pc = "listening"
    /\ server.served < MaxRequests
    /\ server' = [server EXCEPT !.served = @ + 1]
    /\ UNCHANGED parser
    /\ BootUnchanged

NextBoot ==
    \/ ParseBlank
    \/ ParseComment
    \/ ParseHeader
    \/ ParseHeaderError
    \/ ParseLastRule
    \/ ParseLastRuleError
    \/ ParseRule
    \/ ParseRuleError
    \/ ParseReturn
    \/ InitializeOk
    \/ InitializeFail
    \/ Exit
    \/ Listen
    \/ ServeStem

SpecBoot == InitBoot /\ [][NextBoot]_vars

\* parseRSLPRules as a function of the lines of the file
RECURSIVE parseLines(_, _, _, _)
parseLines(lines, i, cur, out) ==
    IF i > Len(lines)
    THEN [status |-> "returned", steps |-> returned(out, cur), error |-> <<>>]
    ELSE LET t == trim(lines[i])
             body == withoutTerminator(t)
         IN  IF isBlank(t) \/ isComment(t) THEN parseLines(lines, i + 1, cur, out)
             ELSE IF cur = <<>>
             THEN IF stepMatch(t).ok
                  THEN parseLines(lines, i + 1, <<parseStep(t)>>, out)
                  ELSE [status |-> "threw", steps |-> <<>>,
                        error |-> <<invalidStep(t)>>]
             ELSE IF isTerminated(t)
             THEN IF ruleMatch(body).ok
                  THEN parseLines(lines, i + 1, <<>>,
                                  Append(out, pushRule(cur[1], parseRule(body))))
                  ELSE [status |-> "threw", steps |-> <<>>,
                        error |-> <<invalidRule(body)>>]
             ELSE IF ruleMatch(t).ok
                  THEN parseLines(lines, i + 1,
                                  <<pushRule(cur[1], parseRule(t))>>, out)
                  ELSE [status |-> "threw", steps |-> <<>>,
                        error |-> <<invalidRule(t)>>]

parseRSLPRules(lines) == parseLines(lines, 1, <<>>, <<>>)

\* what the caller of parseRSLPRules observes
Outcome ==
    [status |-> parser.status, steps |-> parser.returned, error |-> parser.error]

\* the line-by-line actions compute parseRSLPRules
ParseStepwiseAgrees ==
    parser.status # "running" => Outcome = parseRSLPRules(parser.lines)

(***************************************************************************)
(* Claims about the rule-file parser                                       *)
(***************************************************************************)
Chars(sq) == {sq[k] : k \in 1..Len(sq)}

\* a rule record of the grammar: { "suffix", n [, "replacement"] [, { quoted
\* exception strings }] }, with or without the stage terminator after it
IsRuleLine(t) ==
    LET body == IF isTerminated(t) THEN withoutTerminator(t) ELSE t
        m == ruleRegexAt(body, 1)
    IN  /\ m.ok
        /\ 123 \notin Chars(m.g1 \o m.g3 \o m.g4)

OffendingLine == parser.lines[parser.lineIdx]

RECURSIVE LastSignificant(_)
LastSignificant(events) ==
    IF events = <<>> THEN "none"
    ELSE IF events[Len(events)] \in {"blank", "comment"}
         THEN LastSignificant(SubSeq(events, 1, Len(events) - 1))
         ELSE events[Len(events)]

\* a rule record followed by the two-character stage terminator
IsLastRuleLine(t) ==
    /\ Len(t) >= 2
    /\ SubSeq(t, Len(t) - 1, Len(t)) = <<125, 59>>
    /\ IsRuleLine(t)

\* C14: inside a stage, a rule line carrying the stage terminator is parsed
\* without the terminator, its rule becomes the last rule of the current
\* stage, the stage is appended to the output, and no stage is open
\* afterwards: the next significant line is read as a stage header.
C14_StageTermination ==
    /\ [][(/\ Significant
           /\ parser.currentStep # <<>>
           /\ IsLastRuleLine(Trimmed))
          => (LET t == Trimmed
                  r == parseRule(SubSeq(t, 1, Len(t) - 2))
                  cur == parser.currentStep[1]
              IN  /\ parser'.status = "running"
                  /\ parser'.lineIdx = parser.lineIdx + 1
                  /\ parser'.currentStep = <<>>
                  /\ parser'.steps =
                         Append(parser.steps,
                                [cur EXCEPT !.rules = Append(cur.rules, r)]))]_vars
    /\ [][(/\ Significant
           /\ LastSignificant(parser.events) = "close")
          => \/ parser'.currentStep = <<parseStep(Trimmed)>>
             \/ /\ parser'.status = "threw"
                /\ parser'.error[1].message = "Invalid step format"]_vars

C14_Witness ==
    /\ Len(parser.steps) >= 1
    /\ Len(parser.steps[1].rules) >= 2
    /\ LastSignificant(parser.events) = "open"
    /\ parser.currentStep # <<>>

RECURSIVE Ascending(_)
Ascending(S) ==
    IF S = {} THEN <<>>
    ELSE LET least == CHOOSE x \in S : \A y \in S : x <= y
         IN  <<least>> \o Ascending(S \ {least})

EventsAt(kinds) ==
    Ascending({j \in 1..Len(parser.events) : parser.events[j] \in kinds})

\* the rule record that line j of the source holds
RuleTextAt(j) ==
    LET t == trim(parser.lines[j])
    IN  IF parser.events[j] = "close" THEN SubSeq(t, 1, Len(t) - 2) ELSE t

\* C15: the completed stages appear in the order of their header lines; the
\* k-th of them has the fields of the k-th header line and, as its rules, the
\* rule lines between that header and its terminated rule line, in line
\* order; after a rule line without the terminator the stage stays open; the
\* returned stages are a function of the source lines alone.
C15_OrderAndGrouping ==
    LET opened == EventsAt({"open"})
        closed == EventsAt({"close"})
        out == IF parser.status = "returned" THEN parser.returned
               ELSE parser.steps
    IN  /\ Len(out) = Len(closed)
        /\ Len(opened) \in {Len(closed), Len(closed) + 1}
        /\ \A k \in 1..Len(closed) :
               LET ruleLines == Ascending({j \in (opened[k] + 1)..closed[k] :
                                               parser.events[j] \in {"rule", "close"}})
                   header == parseStep(trim(parser.lines[opened[k]]))
               IN  /\ opened[k] < closed[k]
                   /\ k < Len(opened) => closed[k] < opened[k + 1]
                   /\ out[k].name = header.name
                   /\ out[k].minWordLength = header.minWordLength
                   /\ out[k].isWholeWordMatch = header.isWholeWordMatch
                   /\ out[k].conditions = header.conditions
                   /\ out[k].rules =
                          [n \in 1..Len(ruleLines) |-> parseRule(RuleTextAt(ruleLines[n]))]
        /\ parser.status = "returned" =>
               parser.returned = parseRSLPRules(parser.lines).steps
        /\ LastSignificant(parser.events) = "rule" =>
               /\ parser.currentStep # <<>>
               /\ Len(opened) = Len(closed) + 1
               /\ LET open == Ascending({j \in (opened[Len(opened)] + 1)..Len(parser.events) :
                                             parser.events[j] = "rule"})
                  IN  parser.currentStep[1].rules =
                          [n \in 1..Len(open) |-> parseRule(RuleTextAt(open[n]))]

C15_Witness ==
    /\ parser.status = "returned"
    /\ Len(parser.returned) = 1
    /\ Len(parser.returned[1].rules) = 3
    /\ parser.returned[1].rules[1] # parser.returned[1].rules[2]

(***************************************************************************)
(* Claims about the start of the server                                    *)
(***************************************************************************)
\* C16: once parsing has failed with a format error, no stage is returned,
\* no stemmer is bound, the server is not listening and has served no /stem
\* request, and the only way the process ends is with exit code 1; a process
\* that listens holds a stemmer built from the table the parser returned.
C16_NoPartialTable ==
    /\ parser.status = "threw" =>
           /\ parser.returned = <<>>
           /\ server.stemmer = <<>>
           /\ ~server.listening
           /\ server.served = 0
           /\ server.pc \in {"initializing", "initialized", "exited"}
           /\ server.pc = "initialized" => ~server.initialized
           /\ server.pc = "exited" => server.exitCode = <<1>>
    /\ (server.listening \/ server.served > 0) =>
           /\ parser.status = "returned"
           /\ server.stemmer = <<parseRSLPRules(parser.lines).steps>>

C16_Witness ==
    /\ parser.status = "threw"
    /\ Len(parser.steps) >= 1
    /\ server.pc = "exited"
    /\ server.exitCode = <<1>>

\* C16, with the exit: the one step the process takes after a failed
\* initialization is the exit with code 1.
C16_FailsClosed ==
    /\ []C16_NoPartialTable
    /\ [][(server.pc = "initialized" /\ parser.status = "threw")
          => (server'.pc = "exited" /\ server'.exitCode = <<1>>)]_vars

(***************************************************************************)
(* Claims about ignored lines and the end of the input                     *)
(***************************************************************************)
\* a line that is empty or starts with '#' once its surrounding white space
\* is removed
Ignorable(l) ==
    LET t == trim(l)
    IN  t = <<>> \/ t[1] = 35

WithoutIgnorable(lines) == SelectSeq(lines, LAMBDA l : ~Ignorable(l))

\* C17: reading a blank or comment line changes neither the open stage nor
\* the completed stages nor the parser's status, with or without a stage
\* open; the outcome of a parse is the outcome of parsing the source with all
\* its blank and comment lines deleted.
C17_IgnoredLines ==
    /\ [][(AtLine /\ Ignorable(OffendingLine))
          => (/\ parser'.currentStep = parser.currentStep
              /\ parser'.steps = parser.steps
              /\ parser'.status = parser.status
              /\ parser'.error = parser.error
              /\ parser'.returned = parser.returned)]_vars
    /\ [](parser.status # "running" =>
              Outcome = parseRSLPRules(WithoutIgnorable(parser.lines)))

C17_Witness ==
    /\ parser.status = "returned"
    /\ Len(parser.returned) = 1
    /\ \E j \in 1..Len(parser.events) :
           /\ parser.events[j] = "comment"
           /\ LastSignificant(SubSeq(parser.events, 1, j)) = "open"
    /\ \E j \in 1..Len(parser.events) :
           /\ parser.events[j] = "blank"
           /\ LastSignificant(SubSeq(parser.events, 1, j)) = "none"

\* C20: when the input ends with a stage open, parseRSLPRules throws nothing
\* and returns exactly the stages completed before: the open stage and the
\* rules read into it are in no returned stage.
C20_OpenStageDroppedAtEnd ==
    (parser.status = "returned" /\ parser.currentStep # <<>>) =>
        LET opened == EventsAt({"open"})
            closed == EventsAt({"close"})
        IN  /\ parser.error = <<>>
            /\ parser.returned = parser.steps
            /\ Len(parser.returned) = Len(closed)
            /\ Len(opened) = Len(closed) + 1
            /\ \A k \in 1..Len(parser.returned) :
                   Len(parser.returned[k].rules) =
                       Cardinality({j \in (opened[k] + 1)..closed[k] :
                                        parser.events[j] \in {"rule", "close"}})

C20_Witness ==
    /\ parser.status = "returned"
    /\ parser.currentStep # <<>>
    /\ Len(parser.currentStep[1].rules) >= 1
    /\ Len(parser.returned) = 1
    /\ server.listening

(***************************************************************************)
(* One stem call on a table whose stages carry the names of the documented *)
(* process flow                                                            *)
(***************************************************************************)
Named(name, step) == [step EXCEPT !.name = name]

FlowTables ==
    { <<Named("Noun", n), Named("Verb", v), Named("Vowel", w)>> :
        n \in {f \in FirstSteps : Len(f.rules) = 1},
        v \in {s \in SecondSteps : ~s.isWholeWordMatch},
        w \in {f \in FirstSteps : Len(f.rules) = 1} }

InitFlow ==
    /\ steps \in FlowTables
    /\ input \in Inputs
    /\ pc = "call"
    /\ stepIdx = 1
    /\ stemmed = <<>>
    /\ trace = <<>>
    /\ result = Undefined
    /\ arg = Undefined
    /\ base = Undefined
    /\ calls = <<>>
    /\ parser = <<>>
    /\ server = <<>>
    /\ http = <<>>

SpecFlow == InitFlow /\ [][Next]_vars

Removed(k) == trace[k].fired # 0

\* C18 as stated: Verb Reduction removes a suffix only if Noun Reduction
\* removed none, and Remove Vowel only if neither of them removed one.
C18_ReductionsAreExclusive ==
    \A j, k \in Entries :
        (/\ j < k
         /\ StepOf(j).name \in {"Noun", "Verb"}
         /\ StepOf(k).name \in {"Verb", "Vowel"}
         /\ Removed(j))
        => ~trace[k].attempted

(***************************************************************************)
(* The POST /stem handler (backend/src/index.ts)                           *)
(***************************************************************************)
\* text.split(' ')
RECURSIVE splitFrom(_, _, _)
splitFrom(text, i, word) ==
    IF i > Len(text) THEN <<word>>
    ELSE IF text[i] = 32 THEN <<word>> \o splitFrom(text, i + 1, <<>>)
    ELSE splitFrom(text, i + 1, Append(word, text[i]))

split(text) == splitFrom(text, 1, <<>>)

\* stemmedWords.join(' ')
RECURSIVE join(_)
join(words) ==
    IF words = <<>> THEN <<>>
    ELSE IF Len(words) = 1 THEN words[1]
    ELSE words[1] \o <<32>> \o join(Tail(words))

\* words.map(word => stemmer.stem(word))
stemEach(table, words) ==
    [k \in 1..Len(words) |-> stem(table, Str(words[k])).chars]

HttpTables == {<<f>> : f \in {t \in FirstSteps : Len(t.rules) = 1}}

\* tab, line feed, space, 'a', 's'
TextAlphabet == {9, 10, 32, 97, 115}

Texts == SeqsUpTo(TextAlphabet, MaxText)

InitHttp ==
    /\ steps \in HttpTables
    /\ http \in {[text |-> t, pc |-> "request", response |-> <<>>] : t \in Texts}
    /\ input = Undefined
    /\ pc = "http"
    /\ stepIdx = 1
    /\ stemmed = <<>>
    /\ trace = <<>>
    /\ result = Undefined
    /\ arg = Undefined
    /\ base = Undefined
    /\ calls = <<>>
    /\ parser = <<>>
    /\ server = <<>>

HttpUnchanged ==
    UNCHANGED <<steps, input, pc, stepIdx, stemmed, trace, result, arg, base,
                calls, parser, server>>

\* if (!text) return { error: 'Text is required' };
StemTextMissing ==
    /\ http.pc = "request"
    /\ http.text = <<>>
    /\ http' = [http EXCEPT !.pc = "responded",
                            !.response = <<[error |-> "Text is required"]>>]
    /\ HttpUnchanged

\* return { original: text, stemmed: stemmedWords.join(' ') };
StemText ==
    /\ http.pc = "request"
    /\ http.text # <<>>
    /\ http' = [http EXCEPT !.pc = "responded",
                            !.response =
                                <<[original |-> http.text,
                                   stemmed |-> join(stemEach(steps, split(http.text)))]>>]
    /\ HttpUnchanged

NextHttp ==
    \/ StemTextMissing
    \/ StemText

SpecHttp == InitHttp /\ [][NextHttp]_vars

\* the tokens of a text: the text cut at every space, tab and line feed
RECURSIVE TokensFrom(_, _, _)
TokensFrom(text, i, word) ==
    IF i > Len(text) THEN <<word>>
    ELSE IF text[i] \in {9, 10, 32} THEN <<word>> \o TokensFrom(text, i + 1, <<>>)
    ELSE TokensFrom(text, i + 1, Append(word, text[i]))

\* C19 as stated: the response to a non-empty text holds the text itself and
\* the stems of its white-space separated tokens, joined by single spaces.
C19_SplitsOnWhitespace ==
    (http.pc = "responded" /\ http.text # <<>>) =>
        /\ http.response[1].original = http.text
        /\ http.response[1].stemmed =
               join(stemEach(steps, TokensFrom(http.text, 1, <<>>)))

(***************************************************************************)
(* The parser on sources whose lines end in ';' in every position          *)
(***************************************************************************)
\* {"s",2};
RuleSemicolon == <<123, 34, 115, 34, 44, 50, 125, 59>>
\* {"V",0,0,{}};
HeaderSemicolon == <<123, 34, 86, 34, 44, 48, 44, 48, 44, 123, 125, 125, 59>>

\* {"s",2},;
RuleCommaSemicolon == <<123, 34, 115, 34, 44, 50, 125, 44, 59>>

TerminatorLineSet ==
    {BlankLine, CommentLine, HeaderV, HeaderSemicolon, RuleS, LastRuleS,
     RuleSemicolon, RuleCommaSemicolon}

TerminatorSources == SeqsUpTo(TerminatorLineSet, MaxLines)

InitTerminators ==
    /\ parser \in {[lines |-> src, lineIdx |-> 1, currentStep |-> <<>>,
                     steps |-> <<>>, status |-> "running", error |-> <<>>,
                     returned |-> <<>>, events |-> <<>>] : src \in TerminatorSources}
    /\ server = [pc |-> "initializing", stemmer |-> <<>>, initialized |-> FALSE,
                 exitCode |-> <<>>, listening |-> FALSE, served |-> 0]
    /\ steps = <<>>
    /\ input = Undefined
    /\ pc = "boot"
    /\ stepIdx = 1
    /\ stemmed = <<>>
    /\ trace = <<>>
    /\ result = Undefined
    /\ arg = Undefined
    /\ base = Undefined
    /\ calls = <<>>
    /\ http = <<>>

SpecTerminators == InitTerminators /\ [][NextBoot]_vars

\* the position at which the brace opened at the start of r is closed, 0 if
\* it never is
RECURSIVE ClosedAt(_, _, _)
ClosedAt(r, i, depth) ==
    IF i > Len(r) THEN 0
    ELSE IF r[i] = 123 THEN ClosedAt(r, i + 1, depth + 1)
    ELSE IF r[i] = 125
         THEN IF depth = 1 THEN i ELSE ClosedAt(r, i + 1, depth - 1)
    ELSE ClosedAt(r, i + 1, depth)

\* r is one rule record, from its opening brace to its closing brace
IsCompleteRuleRecord(r) ==
    /\ Len(r) >= 2
    /\ r[1] = 123
    /\ ClosedAt(r, 1, 0) = Len(r)
    /\ IsRuleLine(r)

EndsInSemicolon(t) == Len(t) >= 1 /\ t[Len(t)] = 59

IsHeaderShaped(t) == stepRegexAt(t, 1).ok

Opens == parser'.events = Append(parser.events, "open")

\* C22: every returned stage has at least one rule, no returned stage has a
\* negative minWordLength and no returned rule a negative minStemLength; a
\* stage is opened only when none is open, a header-shaped line read inside
\* a stage opens nothing, and the output grows only by the open stage, at a
\* line ending in ';'.
C22_ReturnedTableShape ==
    /\ [](parser.status = "returned" =>
              \A k \in 1..Len(parser.returned) :
                  LET stage == parser.returned[k]
                  IN  /\ Len(stage.rules) >= 1
                      /\ stage.minWordLength \in Nat
                      /\ \A n \in 1..Len(stage.rules) :
                             stage.rules[n].minStemLength \in Nat)
    /\ [][Opens => (parser.currentStep = <<>> /\ parser'.currentStep # <<>>)]_vars
    /\ [][(parser.status = "running" /\ parser.currentStep # <<>>
               /\ parser'.currentStep # <<>>)
          => (/\ parser'.currentStep[1].name = parser.currentStep[1].name
              /\ parser'.currentStep[1].minWordLength = parser.currentStep[1].minWordLength
              /\ parser'.currentStep[1].conditions = parser.currentStep[1].conditions
              /\ parser'.steps = parser.steps)]_vars
    /\ [][(Significant /\ parser.currentStep # <<>> /\ IsHeaderShaped(Trimmed))
          => ~Opens]_vars
    /\ [][parser'.steps # parser.steps
          => (/\ Significant
              /\ parser.currentStep # <<>>
              /\ EndsInSemicolon(Trimmed)
              /\ Len(parser'.steps) = Len(parser.steps) + 1
              /\ SubSeq(parser'.steps, 1, Len(parser.steps)) = parser.steps
              /\ parser'.steps[Len(parser'.steps)].name = parser.currentStep[1].name
              /\ parser'.currentStep = <<>>)]_vars

C22_Witness ==
    /\ parser.status = "returned"
    /\ Len(parser.returned) = 2
    /\ Len(parser.returned[1].rules) = 1
    /\ parser.returned[1].minWordLength = 3
    /\ parser.returned[2].name # parser.returned[1].name

====
